---- MODULE Spec2Model ----
(***************************************************************************)
(* Brainwash Labs backend: webhook ingestion into the JSON ledgers         *)
(* (routes/webhooks.py), the in-memory auth router (routes/auth.py), the   *)
(* dynamic router loader, /debug/env and the startup health pings          *)
(* (main.py), the ROI forecast (utils/ad_brain_loop.py), GET /roi          *)
(* (routes/analytics.py) and the checkout endpoints (routes/finance.py).   *)
(*                                                                         *)
(* Money is kept in integer cents.  Ledger entries keep the fields the     *)
(* handlers compute from the event (id, amount, source); the email and     *)
(* the wall-clock timestamp are carried along by the code without being    *)
(* read anywhere and are left out.                                         *)
(***************************************************************************)
EXTENDS Integers, Sequences, FiniteSets, TLC

\* ------------------------------------------------------------------ bounds
MaxDeliveries == 2      \* webhook deliveries in one behaviour
MaxFaults == 1          \* I/O errors injected in one behaviour
MaxEnv == 3             \* environment variables in one environment
MaxLedger == 3          \* ledger entries the forecast inputs are drawn from

\* ------------------------------------------------- webhooks.py: constants
Cap == 100              \* data[-100:]

WEBHOOK_LOG == "webhook_log"
FINANCE_LOG == "finance_log"
Files == {WEBHOOK_LOG, FINANCE_LOG}

Workers == {1, 2}       \* server processes handling requests

Sources == {"stripe", "coinbase"}
StripeTypes == {"checkout.session.completed", "invoice.paid"}
CoinbaseTypes == {"charge:confirmed", "charge:created"}
\* The processor-assigned transaction ids of the deliveries.
TxIds == {201, 202}

\* The amount a processor reports for a transaction, in cents; a redelivery
\* of an event carries the same data object.
AmountOf(txid) == (txid - 200) * 5025

\* A delivery: the event's source, type and data object, and whether the
\* request carries a signature that verifies against the processor's secret.
Events ==
    [source : {"stripe"}, type : StripeTypes, id : TxIds, sig : BOOLEAN]
    \cup [source : {"coinbase"}, type : CoinbaseTypes, id : TxIds, sig : BOOLEAN]

NoEvent == [source |-> "none", type |-> "none", id |-> 0, sig |-> FALSE]

VARIABLES
    secret,     \* STRIPE_WEBHOOK_SECRET is set in the environment
    file,       \* file[f] = [state, data]: the JSON files under data/
    pc,         \* pc[w]: where worker w's handler stands
    req,        \* req[w]: the event worker w is handling
    buf,        \* buf[w]: the list the handler loaded and appended to
    resp,       \* resp[w]: the HTTP status answered (0: none yet)
    faults,     \* I/O errors so far
    delivered,  \* deliveries so far
    appended,   \* history: appended[f] = every entry written to f, in order
    snap        \* history: snap[w] = the file w set out to write as it was
                \* before, and whether a write of this delivery failed

webVars == <<secret, file, pc, req, buf, resp, faults, delivered, appended,
             snap>>

VARIABLES
    fake_users, \* auth.py: the in-memory mapping email -> stored hash
    authResp,   \* the last answer of the auth router
    registered  \* history: the password each email first signed up with

authVars == <<fake_users, authResp, registered>>

VARIABLES
    pending,      \* main.py: files of routes/ the loader has not visited yet
    mounted,      \* the routes of app: [method, path]
    importFailed, \* route modules whose import raised
    booted        \* the module body of main.py has run to its end

loaderVars == <<pending, mounted, importFailed, booted>>

VARIABLES
    environ,    \* os.environ: a sequence of [name, value]
    debugResp   \* the last answer of /debug/env

envVars == <<environ, debugResp>>

VARIABLES
    reinvest,   \* reinvest.json: [state, data]
    fcPc,       \* where run_forecast stands
    fcBuf,      \* the forecast run_forecast computed
    fcResp,     \* what run_forecast last returned
    prevTotal   \* history: total_revenue of the forecast before that one
                \* (-1: there was none)

fcVars == <<reinvest, fcPc, fcBuf, fcResp, prevTotal>>

VARIABLES
    apiKeys,    \* main.py: the API key of each service in the environment
    ready,      \* startup_event has returned
    hPc,        \* where the verify_service_health task stands
    hInFlight,  \* the task awaits the answer to a request
    hRequests,  \* the services a request was sent to, in order
    hLog        \* what the task logged for each service

healthVars == <<apiKeys, ready, hPc, hInFlight, hRequests, hLog>>

VARIABLES
    roiPc,      \* analytics.py: where get_roi_forecast stands
    roiGot,     \* the text of reinvest.json its first read returned
    roiResp     \* the last answer of GET /roi

roiVars == <<roiPc, roiGot, roiResp>>

VARIABLES
    ckResp      \* finance.py: the last checkout request and its answer

ckVars == <<ckResp>>

moreVars == <<healthVars, roiVars, ckVars>>

vars == <<webVars, authVars, loaderVars, envVars, fcVars, moreVars>>

nonWebVars == <<authVars, loaderVars, envVars, fcVars, moreVars>>

\* ------------------------------------------------- webhooks.py: helpers

\* SafeLoadJson that hands back [] whatever the file holds.
SafeLoadJsonEmpty(f) == <<>>

\* safe_load_json: [] for a missing file and for one that does not parse.
SafeLoadJson(f) == IF file[f].state = "ok" THEN file[f].data ELSE <<>>

\* LastCap with the slice taken from the wrong end: data[:100].
LastCapOldest(data) ==
    IF Len(data) <= Cap THEN data ELSE SubSeq(data, 1, Cap)

\* data[-100:]
LastCap(data) ==
    IF Len(data) <= Cap THEN data
    ELSE SubSeq(data, Len(data) - Cap + 1, Len(data))

\* The entry append_log adds for an event.
LogEntry(ev) ==
    [source |-> ev.source, payload |-> [id |-> ev.id, amount |-> AmountOf(ev.id)]]

\* The entry append_finance adds for a confirmed payment.
FinanceEntry(ev) ==
    [id |-> ev.id, amount |-> AmountOf(ev.id), source |-> ev.source]

\* IsPayment with the test on the event type left out.
IsPaymentAny(ev) == ev.source \in Sources

IsPayment(ev) ==
    \/ ev.source = "stripe" /\ ev.type = "checkout.session.completed"
    \/ ev.source = "coinbase" /\ ev.type = "charge:confirmed"

\* stripe_webhook rejects before reading the body when no secret is set, and
\* construct_event raises SignatureVerificationError on a bad signature;
\* coinbase_webhook checks nothing.
Accepted(ev) ==
    IF ev.source = "stripe" THEN secret /\ ev.sig ELSE TRUE

Prefill(n) == [i \in 1..n |-> [id |-> i, amount |-> 10000, source |-> "stripe"]]
PrefillLog(n) ==
    [i \in 1..n |-> [source |-> "stripe", payload |-> [id |-> i, amount |-> 10000]]]

NoSnap == [f |-> "none", before |-> [state |-> "missing", data |-> <<>>], failed |-> FALSE]

\* data/ on a first start, and with both logs one entry short of the cap.
FreshFiles == [f \in Files |-> [state |-> "missing", data |-> <<>>]]
FullFiles ==
    [f \in Files |->
        [state |-> "ok",
         data |-> IF f = FINANCE_LOG THEN Prefill(Cap - 1) ELSE PrefillLog(Cap - 1)]]

\* No request is being handled.
WebIdle ==
    /\ pc = [w \in Workers |-> "idle"]
    /\ req = [w \in Workers |-> NoEvent]
    /\ buf = [w \in Workers |-> <<>>]
    /\ resp = [w \in Workers |-> 0]
    /\ faults = 0
    /\ delivered = 0
    /\ appended = [f \in Files |-> file[f].data]
    /\ snap = [w \in Workers |-> NoSnap]

InitWeb ==
    /\ secret \in BOOLEAN
    /\ file \in {FreshFiles, FullFiles}
    /\ WebIdle

InitWebFresh ==
    /\ secret = TRUE
    /\ file = FreshFiles
    /\ WebIdle

\* ------------------------------------------------- webhooks.py: handlers

LoadStages == {"log_load", "fin_load"}
OpenStages == {"log_open", "fin_open"}
DumpStages == {"log_dump", "fin_dump"}

\* The file a handler position works on: append_log, then append_finance.
StageFile(p) ==
    IF p \in {"log_load", "log_open", "log_dump"} THEN WEBHOOK_LOG ELSE FINANCE_LOG

\* The entry being appended at a handler position.
StageEntry(p, ev) ==
    IF StageFile(p) = WEBHOOK_LOG THEN LogEntry(ev) ELSE FinanceEntry(ev)

\* Where the handler goes when safe_write_json returns: after append_log to
\* append_finance for a confirmed payment, otherwise to the return.
AfterWrite(p, ev) ==
    IF StageFile(p) = WEBHOOK_LOG /\ IsPayment(ev) THEN "fin_load" ELSE "done"

\* The status answered once the handler is past position p: {"ok": True}.
StatusAfter(p, ev, old) == IF AfterWrite(p, ev) = "done" THEN 200 ELSE old

\* History only: the snapshot kept when the write of f fails before the file
\* is opened (the first failure of a delivery is the one remembered).
FailedBefore(s, f) ==
    IF s.failed THEN s ELSE [f |-> f, before |-> file[f], failed |-> TRUE]

\* A request arrives at worker w.  stripe_webhook answers 400 without a
\* configured secret or on a signature that does not verify.
Deliver(w, ev) ==
    /\ pc[w] = "idle"
    /\ delivered < MaxDeliveries
    /\ delivered' = delivered + 1
    /\ req' = [req EXCEPT ![w] = ev]
    /\ pc' = [pc EXCEPT ![w] = IF Accepted(ev) THEN "log_load" ELSE "done"]
    /\ resp' = [resp EXCEPT ![w] = IF Accepted(ev) THEN 0 ELSE 400]
    /\ UNCHANGED <<secret, file, buf, faults, appended, snap>>
    /\ UNCHANGED nonWebVars

\* safe_load_json, then the append to the loaded list.
Load(w) ==
    /\ pc[w] \in LoadStages
    /\ LET f == StageFile(pc[w])
       IN  buf' = [buf EXCEPT ![w] = Append(SafeLoadJson(f), StageEntry(pc[w], req[w]))]
    /\ pc' = [pc EXCEPT ![w] = IF pc[w] = "log_load" THEN "log_open" ELSE "fin_open"]
    /\ UNCHANGED <<secret, file, req, resp, faults, delivered, appended, snap>>
    /\ UNCHANGED nonWebVars

\* safe_load_json on a file that exists but whose read raises: [].
LoadFail(w) ==
    /\ pc[w] \in LoadStages
    /\ faults < MaxFaults
    /\ file[StageFile(pc[w])].state = "ok"
    /\ faults' = faults + 1
    /\ buf' = [buf EXCEPT ![w] = <<StageEntry(pc[w], req[w])>>]
    /\ pc' = [pc EXCEPT ![w] = IF pc[w] = "log_load" THEN "log_open" ELSE "fin_open"]
    /\ UNCHANGED <<secret, file, req, resp, delivered, appended, snap>>
    /\ UNCHANGED nonWebVars

\* safe_write_json: mkdir, then open(path, "w"), which truncates the file.
Open(w) ==
    /\ pc[w] \in OpenStages
    /\ LET f == StageFile(pc[w])
       IN  /\ file' = [file EXCEPT ![f] = [state |-> "partial", data |-> <<>>]]
           /\ snap' = [snap EXCEPT ![w] =
                        IF @.failed THEN @
                        ELSE [f |-> f, before |-> file[f], failed |-> FALSE]]
    /\ pc' = [pc EXCEPT ![w] = IF pc[w] = "log_open" THEN "log_dump" ELSE "fin_dump"]
    /\ UNCHANGED <<secret, req, buf, resp, faults, delivered, appended>>
    /\ UNCHANGED nonWebVars

\* open raises: the except clause logs it and safe_write_json returns.
OpenFail(w) ==
    /\ pc[w] \in OpenStages
    /\ faults < MaxFaults
    /\ faults' = faults + 1
    /\ snap' = [snap EXCEPT ![w] = FailedBefore(@, StageFile(pc[w]))]
    /\ buf' = [buf EXCEPT ![w] = <<>>]
    /\ resp' = [resp EXCEPT ![w] = StatusAfter(pc[w], req[w], resp[w])]
    /\ pc' = [pc EXCEPT ![w] = AfterWrite(pc[w], req[w])]
    /\ UNCHANGED <<secret, file, req, delivered, appended>>
    /\ UNCHANGED nonWebVars

\* path.parent.mkdir stands before the try: when data/ is absent and cannot
\* be made, the error reaches the handler's except Exception, which
\* answers 500.
MkdirFail(w) ==
    /\ pc[w] \in OpenStages
    /\ faults < MaxFaults
    /\ \A f \in Files : file[f].state = "missing"
    /\ faults' = faults + 1
    /\ buf' = [buf EXCEPT ![w] = <<>>]
    /\ resp' = [resp EXCEPT ![w] = 500]
    /\ pc' = [pc EXCEPT ![w] = "done"]
    /\ snap' = [snap EXCEPT ![w] = FailedBefore(@, StageFile(pc[w]))]
    /\ UNCHANGED <<secret, file, req, delivered, appended>>
    /\ UNCHANGED nonWebVars

\* json.dump(data[-100:], f) into the file this worker truncated.
Dump(w) ==
    /\ pc[w] \in DumpStages
    /\ LET f == StageFile(pc[w])
       IN  /\ file[f].state # "ok"
           /\ file' = [file EXCEPT ![f] = [state |-> "ok", data |-> LastCap(buf[w])]]
           /\ appended' = [appended EXCEPT ![f] = Append(@, buf[w][Len(buf[w])])]
    /\ buf' = [buf EXCEPT ![w] = <<>>]
    /\ resp' = [resp EXCEPT ![w] = StatusAfter(pc[w], req[w], resp[w])]
    /\ pc' = [pc EXCEPT ![w] = AfterWrite(pc[w], req[w])]
    /\ UNCHANGED <<secret, req, faults, delivered, snap>>
    /\ UNCHANGED nonWebVars

\* json.dump over a file another process has written since this worker's
\* open: both write from offset 0, so the file holds this worker's text when
\* it is at least as long as the other's, and otherwise this text followed
\* by the other's tail, which does not parse.
DumpRace(w) ==
    /\ pc[w] \in DumpStages
    /\ LET f == StageFile(pc[w])
       IN  /\ file[f].state = "ok"
           /\ \/ /\ file' = [file EXCEPT ![f] = [state |-> "ok", data |-> LastCap(buf[w])]]
                 /\ appended' = [appended EXCEPT ![f] = Append(@, buf[w][Len(buf[w])])]
              \/ /\ file' = [file EXCEPT ![f] = [state |-> "partial", data |-> <<>>]]
                 /\ UNCHANGED appended
    /\ buf' = [buf EXCEPT ![w] = <<>>]
    /\ resp' = [resp EXCEPT ![w] = StatusAfter(pc[w], req[w], resp[w])]
    /\ pc' = [pc EXCEPT ![w] = AfterWrite(pc[w], req[w])]
    /\ UNCHANGED <<secret, req, faults, delivered, snap>>
    /\ UNCHANGED nonWebVars

\* json.dump raises part-way (disk full, I/O error): the except clause logs
\* it; the truncated file is left with whatever was written.
DumpFail(w) ==
    /\ pc[w] \in DumpStages
    /\ faults < MaxFaults
    /\ faults' = faults + 1
    /\ file' = [file EXCEPT ![StageFile(pc[w])] = [state |-> "partial", data |-> <<>>]]
    /\ buf' = [buf EXCEPT ![w] = <<>>]
    /\ resp' = [resp EXCEPT ![w] = StatusAfter(pc[w], req[w], resp[w])]
    /\ pc' = [pc EXCEPT ![w] = AfterWrite(pc[w], req[w])]
    /\ snap' = [snap EXCEPT ![w].failed = TRUE]
    /\ UNCHANGED <<secret, req, delivered, appended>>
    /\ UNCHANGED nonWebVars

\* The response has been sent; the worker takes the next request.
Finish(w) ==
    /\ pc[w] = "done"
    /\ pc' = [pc EXCEPT ![w] = "idle"]
    /\ req' = [req EXCEPT ![w] = NoEvent]
    /\ resp' = [resp EXCEPT ![w] = 0]
    /\ snap' = [snap EXCEPT ![w] = NoSnap]
    /\ UNCHANGED <<secret, file, buf, faults, delivered, appended>>
    /\ UNCHANGED nonWebVars

\* One step of one handler, as a single process runs it.
Handler(w) ==
    \/ \E ev \in Events : Deliver(w, ev)
    \/ Load(w)
    \/ LoadFail(w)
    \/ Open(w)
    \/ OpenFail(w)
    \/ MkdirFail(w)
    \/ Dump(w)
    \/ DumpFail(w)
    \/ Finish(w)

\* ------------------------------------------------------------- auth.py

Emails == {"test@labs.com", "miki@labs.com"}
Passwords == {"12345", "hunter2", ""}

None == "<None>"

\* hashlib.sha256(password.encode()).hexdigest(), its first 12 digits.
hash_password(password) ==
    CASE password = "12345" -> "5994471abb01"
      [] password = "hunter2" -> "f52fbd32b2b3"
      [] password = "" -> "e3b0c44298fc"

NoUsers == [e \in {} |-> None]

NoAuthResp ==
    [op |-> "none", email |-> "", password |-> "", status |-> 0, count |-> 0,
     before |-> NoUsers]

InitAuth ==
    /\ fake_users = NoUsers
    /\ authResp = NoAuthResp
    /\ registered = [e \in Emails |-> None]

\* fake_users.get(email)
UsersGet(email) == IF email \in DOMAIN fake_users THEN fake_users[email] ELSE None

\* Python's truth value of an Optional[str]: None and "" are false.
Falsy(x) == x = None \/ x = ""

\* SignupStatus without the check for an existing entry.
SignupStatusAlways(email) == 200

\* The status signup answers: 400 when the email is a key of the mapping.
SignupStatus(email) == IF email \in DOMAIN fake_users THEN 400 ELSE 200

\* LoginStatus without the comparison of the hashes.
LoginStatusNoCompare(email, password) ==
    IF Falsy(UsersGet(email)) THEN 404 ELSE 200

\* The status login answers.
LoginStatus(email, password) ==
    IF Falsy(UsersGet(email)) THEN 404
    ELSE IF UsersGet(email) # hash_password(password) THEN 401
    ELSE 200

\* fake_users[email] = hash_password(password)
UsersPut(email, password) ==
    [e \in DOMAIN fake_users \cup {email} |->
        IF e = email THEN hash_password(password) ELSE fake_users[e]]

signup(email, password) ==
    /\ authResp' = [op |-> "signup", email |-> email, password |-> password,
                    status |-> SignupStatus(email), count |-> 0,
                    before |-> fake_users]
    /\ IF SignupStatus(email) = 200
       THEN /\ fake_users' = UsersPut(email, password)
            /\ registered' = [registered EXCEPT ![email] =
                                 IF @ = None THEN password ELSE @]
       ELSE UNCHANGED <<fake_users, registered>>
    /\ UNCHANGED <<webVars, loaderVars, envVars, fcVars, moreVars>>

login(email, password) ==
    /\ authResp' = [op |-> "login", email |-> email, password |-> password,
                    status |-> LoginStatus(email, password), count |-> 0,
                    before |-> fake_users]
    /\ UNCHANGED <<fake_users, registered>>
    /\ UNCHANGED <<webVars, loaderVars, envVars, fcVars, moreVars>>

auth_status ==
    /\ authResp' = [op |-> "status", email |-> "", password |-> "", status |-> 200,
                    count |-> Cardinality(DOMAIN fake_users), before |-> fake_users]
    /\ UNCHANGED <<fake_users, registered>>
    /\ UNCHANGED <<webVars, loaderVars, envVars, fcVars, moreVars>>

\* ---------------------------------------------- main.py: router loader

\* routes_path.glob("*.py"): the stems of the files of routes/.
RouteFiles ==
    {"__init__", "auth", "avatar", "analytics", "dashboard", "finance",
     "integrations", "webhooks"}

\* file.stem.startswith("_")
IsPrivate(stem) == stem = "__init__"

\* The route modules that import packages beyond the framework's own
\* (stripe, requests, email-validator): their import raises when one is
\* not installed.
MayFailImport == {"auth", "dashboard", "finance", "webhooks"}

\* A path is its sequence of segments: <<"auth", "signup">> is /auth/signup.
\* APIRouter(prefix=...) of each route module.
RouterPrefix(stem) ==
    CASE stem = "auth" -> <<"auth">>
      [] stem = "avatar" -> <<"avatar">>
      [] stem = "dashboard" -> <<"dashboard">>
      [] stem = "integrations" -> <<"integrations">>
      [] OTHER -> <<>>

Route(method, path) == [method |-> method, path |-> path]

\* The @router.get / @router.post decorators of each route module.
RouterRoutes(stem) ==
    CASE stem = "auth" ->
           {Route("POST", <<"signup">>), Route("POST", <<"login">>),
            Route("GET", <<"status">>)}
      [] stem = "avatar" ->
           {Route("POST", <<"create">>), Route("GET", <<"list">>),
            Route("POST", <<"run", "{avatar_id}">>)}
      [] stem = "analytics" -> {Route("GET", <<"roi">>)}
      [] stem = "dashboard" ->
           {Route("GET", <<"status">>), Route("GET", <<"finance">>),
            Route("GET", <<"webhooks">>), Route("GET", <<"metrics">>),
            Route("GET", <<"debug">>)}
      [] stem = "finance" ->
           {Route("POST", <<"stripe", "checkout">>),
            Route("POST", <<"coinbase", "checkout">>), Route("GET", <<"status">>)}
      [] stem = "integrations" -> {Route("GET", <<"status">>)}
      [] stem = "webhooks" ->
           {Route("POST", <<"stripe">>), Route("POST", <<"coinbase">>),
            Route("GET", <<"status">>)}
      [] OTHER -> {}

\* hasattr(module, "router")
HasRouter(stem) == RouterRoutes(stem) # {}

\* prefix = f"/{file.stem}" if file.stem != "main" else ""
LoaderPrefix(stem) == IF stem = "main" THEN <<>> ELSE <<stem>>

\* app.include_router(module.router, prefix=prefix): each route of the
\* router is added at prefix + router.prefix + route.path.
IncludeRouter(stem) ==
    {Route(r.method, LoaderPrefix(stem) \o RouterPrefix(stem) \o r.path) :
        r \in RouterRoutes(stem)}

\* @app.get("/"), @app.get("/healthz"), @app.get("/debug/env")
AppRoutes ==
    {Route("GET", <<>>), Route("GET", <<"healthz">>), Route("GET", <<"debug", "env">>)}

\* The routes of app when every import succeeded.
AllMounted == UNION {IncludeRouter(f) : f \in RouteFiles \ {"__init__"}} \cup AppRoutes

\* A request path matches a route path segment by segment; a {parameter}
\* segment matches any segment.
PathMatches(routePath, path) ==
    /\ Len(routePath) = Len(path)
    /\ \A i \in 1..Len(path) : routePath[i] = path[i] \/ routePath[i] = "{avatar_id}"

\* The application answers the request from a route (anything but 404/405).
Served(method, path) ==
    \E r \in mounted : r.method = method /\ PathMatches(r.path, path)

\* Before main.py runs.
InitLoader ==
    /\ pending = RouteFiles
    /\ mounted = {}
    /\ importFailed = {}
    /\ booted = FALSE

\* After main.py has run with every import succeeding.
InitLoaded ==
    /\ pending = {}
    /\ mounted = AllMounted
    /\ importFailed = {}
    /\ booted = TRUE

\* if file.stem.startswith("_"): continue
SkipPrivate(stem) ==
    /\ stem \in pending
    /\ IsPrivate(stem)
    /\ pending' = pending \ {stem}
    /\ UNCHANGED <<mounted, importFailed, booted>>
    /\ UNCHANGED <<webVars, authVars, envVars, fcVars, moreVars>>

\* import_module succeeds; the router, when the module has one, is included.
LoadRouter(stem) ==
    /\ stem \in pending
    /\ ~IsPrivate(stem)
    /\ pending' = pending \ {stem}
    /\ mounted' = IF HasRouter(stem) THEN mounted \cup IncludeRouter(stem) ELSE mounted
    /\ UNCHANGED <<importFailed, booted>>
    /\ UNCHANGED <<webVars, authVars, envVars, fcVars, moreVars>>

\* import_module raises: the except clause logs it and the loop goes on.
ImportFails(stem) ==
    /\ stem \in pending
    /\ ~IsPrivate(stem)
    /\ stem \in MayFailImport
    /\ pending' = pending \ {stem}
    /\ importFailed' = importFailed \cup {stem}
    /\ UNCHANGED <<mounted, booted>>
    /\ UNCHANGED <<webVars, authVars, envVars, fcVars, moreVars>>

\* The rest of the module body: the application's own routes.
FinishBoot ==
    /\ pending = {}
    /\ ~booted
    /\ mounted' = mounted \cup AppRoutes
    /\ booted' = TRUE
    /\ UNCHANGED <<pending, importFailed>>
    /\ UNCHANGED <<webVars, authVars, envVars, fcVars, moreVars>>

\* ------------------------------------------------- main.py: /debug/env

\* A name or a value of the environment is its sequence of characters.
UpperCase == <<"A", "B", "C", "D", "E", "F", "G", "H", "I", "J", "K", "L", "M", "N", "O", "P", "Q", "R", "S", "T", "U", "V", "W", "X", "Y", "Z">>
LowerCase == <<"a", "b", "c", "d", "e", "f", "g", "h", "i", "j", "k", "l", "m", "n", "o", "p", "q", "r", "s", "t", "u", "v", "w", "x", "y", "z">>

\* The lower-case letter of each upper-case letter, and the converse.
LowerOf ==
    [c \in {UpperCase[i] : i \in 1..Len(UpperCase)} |->
        LowerCase[CHOOSE i \in 1..Len(UpperCase) : UpperCase[i] = c]]
UpperOf ==
    [c \in {LowerCase[i] : i \in 1..Len(LowerCase)} |->
        UpperCase[CHOOSE i \in 1..Len(LowerCase) : LowerCase[i] = c]]

\* str.lower(), character by character
ToLower(c) == IF c \in DOMAIN LowerOf THEN LowerOf[c] ELSE c

Lower(k) == [i \in 1..Len(k) |-> ToLower(k[i])]

\* x in k, for strings
Contains(k, x) ==
    \E i \in 1..(Len(k) - Len(x) + 1) : SubSeq(k, i, i + Len(x) - 1) = x

\* ["key", "secret", "token"]
Sensitive == {<<"k", "e", "y">>, <<"s", "e", "c", "r", "e", "t">>, <<"t", "o", "k", "e", "n">>}

\* IsSafeName without the lower(): x in k.
IsSafeNameCaseSensitive(k) == \A x \in Sensitive : ~Contains(k, x)

\* not any(x in k.lower() for x in ["key", "secret", "token"])
IsSafeName(k) == LET lowered == Lower(k) IN \A x \in Sensitive : ~Contains(lowered, x)

\* The variable names the environments are drawn from: PATH, ENV, TOK_EN,
\* STRIPE_SECRET_KEY, Api_Token, MONKEY, dbSeCrEt.
EnvNames ==
    {<<"P", "A", "T", "H">>,
     <<"E", "N", "V">>,
     <<"T", "O", "K", "_", "E", "N">>,
     <<"S", "T", "R", "I", "P", "E", "_", "S", "E", "C", "R", "E", "T", "_", "K", "E", "Y">>,
     <<"A", "p", "i", "_", "T", "o", "k", "e", "n">>,
     <<"M", "O", "N", "K", "E", "Y">>,
     <<"d", "b", "S", "e", "C", "r", "E", "t">>}

\* The values: sk_1, sk_2.
EnvValues == {<<"s", "k", "_", "1">>, <<"s", "k", "_", "2">>}

\* os.environ: at most MaxEnv variables, each name once.
Environments ==
    UNION {{[i \in 1..n |-> [name |-> names[i], value |-> values[i]]] :
              names \in {ns \in [1..n -> EnvNames] :
                            \A i, j \in 1..n : ns[i] = ns[j] => i = j},
              values \in [1..n -> EnvValues]} : n \in 0..MaxEnv}

\* os.environ.keys()
EnvKeys(env) == [i \in 1..Len(env) |-> env[i].name]

\* The answer of debug_env in environment env.
DebugEnv(env) ==
    [service |-> "Brainwash Labs Backend",
     env_keys |-> SelectSeq(EnvKeys(env), IsSafeName),
     routes_loaded |-> {r.path : r \in mounted},
     version |-> "2.3.0"]

NoDebugResp == [service |-> "", env_keys |-> <<>>, routes_loaded |-> {}, version |-> ""]

InitEnv ==
    /\ environ = <<>>
    /\ debugResp = NoDebugResp

\* The process is started in any of the environments.
InitEnvAny ==
    /\ environ \in Environments
    /\ debugResp = NoDebugResp

debug_env ==
    /\ debugResp' = DebugEnv(environ)
    /\ UNCHANGED environ
    /\ UNCHANGED <<webVars, authVars, loaderVars, fcVars, moreVars>>

\* ------------------------------------------------------ ad_brain_loop.py

REINVEST_FILE == "reinvest"

\* total_ads_spent = 100.0, in dollars
AdsSpent == 100

RECURSIVE SumAmounts(_)
\* sum(float(x.get("amount", 0)) for x in finance), in cents
SumAmounts(finance) ==
    IF finance = <<>> THEN 0
    ELSE finance[1].amount + SumAmounts(Tail(finance))

\* round(total_revenue / total_ads_spent, 2), in hundredths.  The quotient is
\* a binary float: a total that lies exactly between two hundredths comes
\* out just above or just below the tie (or on it, and then round goes to
\* the even neighbour), so either neighbour can be the result.
RoundedRoi(cents) ==
    LET q == cents \div AdsSpent
        r == cents % AdsSpent
    IN  IF 2 * r < AdsSpent THEN {q}
        ELSE IF 2 * r > AdsSpent THEN {q + 1}
        ELSE {q, q + 1}

\* NextBudget with >= for >.
NextBudgetInclusive(roi) ==
    IF roi >= 150 THEN (AdsSpent * 15) \div 10
    ELSE IF roi >= 100 THEN (AdsSpent * 12) \div 10
    ELSE (AdsSpent * 8) \div 10

\* The if/elif/else on roi, roi in hundredths, the budget in dollars.
NextBudget(roi) ==
    IF roi > 150 THEN (AdsSpent * 15) \div 10
    ELSE IF roi > 100 THEN (AdsSpent * 12) \div 10
    ELSE (AdsSpent * 8) \div 10

\* random.randint(82, 98)
Confidences == 82..98

NoForecast ==
    [total_revenue |-> -1, ads_spent |-> 0, roi |-> 0, next_budget |-> 0,
     confidence |-> 0]

\* FcLoadJson reading every payment ever appended, not the file.
FcLoadJsonHistory == appended[FINANCE_LOG]

\* load_json(FINANCE_LOG) of ad_brain_loop.py: [] for a missing file and
\* for one that does not parse.
FcLoadJson == IF file[FINANCE_LOG].state = "ok" THEN file[FINANCE_LOG].data ELSE <<>>

InitFc ==
    /\ reinvest = [state |-> "missing", data |-> NoForecast]
    /\ fcPc = "idle"
    /\ fcBuf = NoForecast
    /\ fcResp = NoForecast
    /\ prevTotal = -1

\* run_forecast up to save_json's open(path, "w"), which truncates
\* reinvest.json.
ForecastCompute ==
    /\ fcPc = "idle"
    /\ \E total_revenue \in {SumAmounts(FcLoadJson)} :
          \E roi \in RoundedRoi(total_revenue), c \in Confidences :
             fcBuf' = [total_revenue |-> total_revenue,
                       ads_spent |-> AdsSpent,
                       roi |-> roi,
                       next_budget |-> NextBudget(roi),
                       confidence |-> c]
    /\ reinvest' = [state |-> "partial", data |-> NoForecast]
    /\ fcPc' = "saving"
    /\ fcResp' = NoForecast
    /\ prevTotal' = (IF fcResp # NoForecast THEN fcResp.total_revenue ELSE prevTotal)
    /\ UNCHANGED <<webVars, authVars, loaderVars, envVars, moreVars>>

\* json.dump(reinvest, f), then return reinvest.
ForecastSave ==
    /\ fcPc = "saving"
    /\ reinvest' = [state |-> "ok", data |-> fcBuf]
    /\ fcResp' = fcBuf
    /\ fcPc' = "idle"
    /\ UNCHANGED <<fcBuf, prevTotal>>
    /\ UNCHANGED <<webVars, authVars, loaderVars, envVars, moreVars>>

\* The ledgers the forecast is tried on: up to MaxLedger payments.
LedgerAmounts == {50, 5000, 10000}

Ledgers ==
    UNION {[1..n -> [id : {201}, amount : LedgerAmounts, source : {"stripe"}]] :
              n \in 0..MaxLedger}

\* finance_log.json holds any of the ledgers, is missing, or does not parse.
InitLedgerAny ==
    /\ secret = TRUE
    /\ \/ \E l \in Ledgers :
             file = [f \in Files |->
                       [state |-> "ok", data |-> IF f = FINANCE_LOG THEN l ELSE <<>>]]
       \/ \E st \in {"missing", "partial"} :
             file = [f \in Files |-> [state |-> st, data |-> <<>>]]
    /\ WebIdle

\* ------------------------------------------------ main.py: health pings

\* The services dict of verify_service_health, in insertion order.
ServiceOrder == <<"Stripe", "Coinbase", "OpenAI">>
Services == {ServiceOrder[i] : i \in 1..Len(ServiceOrder)}

\* What os.getenv yields for an API key: unset, empty, or a key.
KeyValues == {None, "", "sk_live"}

\* How an awaited client.get ends: an HTTP response of any status, a
\* connection error, or the 6 second timeout.
Outcomes == {"response", "error", "timeout"}

\* Positions of the task: 0 before create_task, i at the head of the loop
\* body for ServiceOrder[i], Finished after the loop, Crashed when an
\* exception left the coroutine.
Finished == Len(ServiceOrder) + 1
Crashed == Len(ServiceOrder) + 2

NoHealthLog == [s \in Services |-> "none"]

\* AfterCheck without the try/except around the request.
AfterCheckUnguarded(outcome, i) == IF outcome = "response" THEN i + 1 ELSE Crashed

\* Where the loop goes when a request has ended: the except clause logs a
\* failure and the loop goes on to the next service.
AfterCheck(outcome, i) == i + 1

\* The line logged for a request that ended with outcome.
Logged(outcome) == IF outcome = "response" THEN "reachable" ELSE "failed"

HealthIdle ==
    /\ ready = FALSE
    /\ hPc = 0
    /\ hInFlight = FALSE
    /\ hRequests = <<>>
    /\ hLog = NoHealthLog

InitHealth ==
    /\ apiKeys = [s \in Services |-> "sk_live"]
    /\ HealthIdle

InitHealthAny ==
    /\ apiKeys \in [Services -> KeyValues]
    /\ HealthIdle

\* startup_event: logs the missing variables, creates the task and
\* returns; it has no await, so the task's first step comes after it.
startup_event ==
    /\ ~ready
    /\ ready' = TRUE
    /\ hPc' = 1
    /\ UNCHANGED <<apiKeys, hInFlight, hRequests, hLog>>
    /\ UNCHANGED <<webVars, authVars, loaderVars, envVars, fcVars, roiVars, ckVars>>

\* if not key: log the warning and continue.
HealthSkip ==
    /\ hPc \in 1..Len(ServiceOrder)
    /\ ~hInFlight
    /\ Falsy(apiKeys[ServiceOrder[hPc]])
    /\ hLog' = [hLog EXCEPT ![ServiceOrder[hPc]] = "missing"]
    /\ hPc' = hPc + 1
    /\ UNCHANGED <<apiKeys, ready, hInFlight, hRequests>>
    /\ UNCHANGED <<webVars, authVars, loaderVars, envVars, fcVars, roiVars, ckVars>>

\* await client.get(...): the request is sent and the task is suspended.
HealthRequest ==
    /\ hPc \in 1..Len(ServiceOrder)
    /\ ~hInFlight
    /\ ~Falsy(apiKeys[ServiceOrder[hPc]])
    /\ hInFlight' = TRUE
    /\ hRequests' = Append(hRequests, ServiceOrder[hPc])
    /\ UNCHANGED <<apiKeys, ready, hPc, hLog>>
    /\ UNCHANGED <<webVars, authVars, loaderVars, envVars, fcVars, roiVars, ckVars>>

\* The awaited request ends; the task logs the result.
HealthReply(outcome) ==
    /\ hPc \in 1..Len(ServiceOrder)
    /\ hInFlight
    /\ hInFlight' = FALSE
    /\ hLog' = [hLog EXCEPT ![ServiceOrder[hPc]] = Logged(outcome)]
    /\ hPc' = AfterCheck(outcome, hPc)
    /\ UNCHANGED <<apiKeys, ready, hRequests>>
    /\ UNCHANGED <<webVars, authVars, loaderVars, envVars, fcVars, roiVars, ckVars>>

\* ------------------------------------------------- analytics.py: GET /roi

\* What load_json hands back: a dict read from the file, the default {},
\* or (were the read not guarded) the exception of a text that does not
\* parse.
Dict(d) == [kind |-> "dict", data |-> d]
EmptyDict == [kind |-> "empty", data |-> NoForecast]
ParseError == [kind |-> "error", data |-> NoForecast]

\* RoiParse without the try/except of load_json.
RoiParseUnguarded(text) ==
    IF text.state = "ok" THEN Dict(text.data) ELSE ParseError

\* json.load on the text read, inside load_json's try: the dict of a
\* complete text, default or {} for a text that does not parse.
RoiParse(text) ==
    IF text.state = "ok" THEN Dict(text.data) ELSE EmptyDict

\* The body get_roi_forecast builds with reinvest.get(field, default); the
\* wall-clock timestamp of a forecast is kept as "utcnow".
RoiBody(loaded) ==
    IF loaded.kind = "dict"
    THEN [total_revenue |-> loaded.data.total_revenue,
          ads_spent |-> loaded.data.ads_spent,
          roi |-> loaded.data.roi,
          next_budget |-> loaded.data.next_budget,
          confidence |-> loaded.data.confidence,
          timestamp |-> "utcnow",
          version |-> "v2.7.4"]
    ELSE [total_revenue |-> 0, ads_spent |-> 0, roi |-> 0, next_budget |-> 0,
          confidence |-> 0, timestamp |-> "N/A", version |-> "v2.7.4"]

\* The answer: 200 with the body, or the 500 of an exception that reaches
\* the framework.
RoiAnswer(loaded) ==
    [status |-> IF loaded.kind = "error" THEN 500 ELSE 200, body |-> RoiBody(loaded)]

NoText == [state |-> "missing", data |-> NoForecast]
NoRoiResp == [status |-> 0, body |-> RoiBody(EmptyDict)]

InitRoi ==
    /\ roiPc = "idle"
    /\ roiGot = NoText
    /\ roiResp = NoRoiResp

\* load_json: path.exists() is false, the default is returned at once.
RoiMissing ==
    /\ roiPc = "idle"
    /\ reinvest.state = "missing"
    /\ roiResp' = RoiAnswer(EmptyDict)
    /\ UNCHANGED <<roiPc, roiGot>>
    /\ UNCHANGED <<webVars, authVars, loaderVars, envVars, fcVars, healthVars, ckVars>>

\* open(path, "r") and the first read of f.read(): the text the file holds
\* at that moment, complete or cut short by a writer's truncation.
RoiRead ==
    /\ roiPc = "idle"
    /\ reinvest.state # "missing"
    /\ roiGot' = reinvest
    /\ roiPc' = "reading"
    /\ UNCHANGED roiResp
    /\ UNCHANGED <<webVars, authVars, loaderVars, envVars, fcVars, healthVars, ckVars>>

\* The read that finds end of file, then json.load.  When the file was
\* written again in between, that read may return the tail of a longer new
\* text behind the text already read, and the whole does not parse.
RoiParseStep ==
    /\ roiPc = "reading"
    /\ \/ roiResp' = RoiAnswer(RoiParse(roiGot))
       \/ /\ reinvest # roiGot
          /\ reinvest.state = "ok"
          /\ roiResp' = RoiAnswer(RoiParse([state |-> "partial", data |-> NoForecast]))
    /\ roiPc' = "idle"
    /\ roiGot' = NoText
    /\ UNCHANGED <<webVars, authVars, loaderVars, envVars, fcVars, healthVars, ckVars>>

\* ------------------------------------------------ finance.py: checkouts

\* body.get("plan", "monthly") of a body without the field.
Absent == "<absent>"

\* The request bodies: one that is not JSON, and JSON objects with any
\* email (missing, empty or given) and any plan.
CheckoutEmails == {None, "", "a@labs.com"}
CheckoutPlans == {Absent, "monthly", "yearly", "weekly"}
CheckoutBodies ==
    [json : {TRUE}, email : CheckoutEmails, plan : CheckoutPlans]
    \cup {[json |-> FALSE, email |-> None, plan |-> Absent]}

\* How stripe.checkout.Session.create ends.
StripeOutcomes == {"session", "StripeError", "error"}

\* How requests.post to Coinbase ends: a 201 with a charge, a 201 with an
\* empty data object, a 201 whose body is not JSON, another status, or a
\* RequestException (connection error, timeout).
CoinbaseOutcomes == {"201", "201 empty", "201 not json", "422", "RequestException"}

\* What the body of a try block does: it returns, or raises an exception
\* of a class; called tells whether the processor was called.
Returns(called) == [kind |-> "return", exc |-> "none", status |-> 200, called |-> called]
Raises(exc, status, called) ==
    [kind |-> "raise", exc |-> exc, status |-> status, called |-> called]

\* {"monthly": ..., "yearly": ...}.get(plan)
PriceId(plan) ==
    IF plan \in {Absent, "monthly"} THEN "price_XXX_monthly"
    ELSE IF plan = "yearly" THEN "price_XXX_yearly"
    ELSE None

\* The try block of create_stripe_checkout.
StripeTry(body, outcome) ==
    IF ~body.json THEN Raises("JSONDecodeError", 0, FALSE)
    ELSE IF Falsy(body.email) THEN Raises("HTTPException", 400, FALSE)
    ELSE IF Falsy(PriceId(body.plan)) THEN Raises("HTTPException", 400, FALSE)
    ELSE IF outcome = "session" THEN Returns(TRUE)
    ELSE IF outcome = "StripeError" THEN Raises("StripeError", 0, TRUE)
    ELSE Raises("Exception", 0, TRUE)

\* The except clauses of create_stripe_checkout: StripeError, then
\* Exception, which is a base class of HTTPException as well.
StripeExcept(r) ==
    IF r.kind = "return" THEN {200}
    ELSE IF r.exc = "StripeError" THEN {500}
    ELSE {500}

\* The try block of create_coinbase_checkout.
CoinbaseTry(body, outcome) ==
    IF ~body.json THEN Raises("JSONDecodeError", 0, FALSE)
    ELSE IF Falsy(body.email) THEN Raises("HTTPException", 400, FALSE)
    ELSE IF outcome = "RequestException" THEN Raises("RequestException", 0, TRUE)
    ELSE IF outcome = "422" THEN Raises("HTTPException", 400, TRUE)
    ELSE IF outcome = "201 not json" THEN Raises("ResponseJSONDecodeError", 0, TRUE)
    ELSE IF outcome = "201 empty" THEN Raises("HTTPException", 400, TRUE)
    ELSE Returns(TRUE)

\* The except clauses of create_coinbase_checkout: RequestException, then
\* Exception.  The error of response.json() is a RequestException in
\* requests from 2.27 on and a plain ValueError before.
CoinbaseExcept(r) ==
    IF r.kind = "return" THEN {200}
    ELSE IF r.exc = "RequestException" THEN {502}
    ELSE IF r.exc = "ResponseJSONDecodeError" THEN {502, 500}
    ELSE {500}

NoCheckout ==
    [endpoint |-> "none", key |-> FALSE,
     body |-> [json |-> FALSE, email |-> None, plan |-> Absent],
     outcome |-> "none", status |-> 0, called |-> FALSE]

InitCk == ckResp = NoCheckout

\* POST /stripe/checkout; key: STRIPE_SECRET_KEY is set.
create_stripe_checkout(key, body, outcome) ==
    /\ IF ~key
       THEN ckResp' = [endpoint |-> "stripe", key |-> key, body |-> body,
                       outcome |-> outcome, status |-> 400, called |-> FALSE]
       ELSE \E st \in StripeExcept(StripeTry(body, outcome)) :
               ckResp' = [endpoint |-> "stripe", key |-> key, body |-> body,
                          outcome |-> outcome, status |-> st,
                          called |-> StripeTry(body, outcome).called]
    /\ UNCHANGED <<webVars, authVars, loaderVars, envVars, fcVars, healthVars, roiVars>>

\* POST /coinbase/checkout; key: COINBASE_API_KEY is set.
create_coinbase_checkout(key, body, outcome) ==
    /\ IF ~key
       THEN ckResp' = [endpoint |-> "coinbase", key |-> key, body |-> body,
                       outcome |-> outcome, status |-> 400, called |-> FALSE]
       ELSE \E st \in CoinbaseExcept(CoinbaseTry(body, outcome)) :
               ckResp' = [endpoint |-> "coinbase", key |-> key, body |-> body,
                          outcome |-> outcome, status |-> st,
                          called |-> CoinbaseTry(body, outcome).called]
    /\ UNCHANGED <<webVars, authVars, loaderVars, envVars, fcVars, healthVars, roiVars>>

InitMore == InitHealth /\ InitRoi /\ InitCk

\* ---------------------------------------------------------- specifications

Init == InitWeb /\ InitAuth /\ InitLoaded /\ InitEnv /\ InitFc /\ InitMore

\* Several server processes: the handlers' file steps interleave.
Next == \E w \in Workers : Handler(w) \/ DumpRace(w)

Spec == Init /\ [][Next]_vars

\* One server process: a handler has no await between its file steps, so
\* deliveries are handled one after the other.
NextSeq == Handler(1)

SeqSpec == Init /\ [][NextSeq]_vars

\* Requests to the auth router of one server process.
NextAuth ==
    \/ \E e \in Emails, p \in Passwords : signup(e, p)
    \/ \E e \in Emails, p \in Passwords : login(e, p)
    \/ auth_status

InitAuthSpec == InitWebFresh /\ InitAuth /\ InitLoaded /\ InitEnv /\ InitFc /\ InitMore

AuthSpec == InitAuthSpec /\ [][NextAuth]_vars

\* main.py's module body: the loader visits routes/*.py in the order glob
\* yields them, then the application's own routes are registered.
NextLoader ==
    \/ \E stem \in RouteFiles : SkipPrivate(stem)
    \/ \E stem \in RouteFiles : LoadRouter(stem)
    \/ \E stem \in RouteFiles : ImportFails(stem)
    \/ FinishBoot

InitLoaderSpec == InitWebFresh /\ InitAuth /\ InitLoader /\ InitEnv /\ InitFc /\ InitMore

LoaderSpec == InitLoaderSpec /\ [][NextLoader]_vars

\* GET /debug/env, in any environment.
NextEnv == debug_env

InitEnvSpec == InitWebFresh /\ InitAuth /\ InitLoaded /\ InitEnvAny /\ InitFc /\ InitMore

EnvSpec == InitEnvSpec /\ [][NextEnv]_vars

\* run_forecast, on any ledger.
NextForecast == ForecastCompute \/ ForecastSave

InitForecastSpec == InitLedgerAny /\ InitAuth /\ InitLoaded /\ InitEnv /\ InitFc /\ InitMore

ForecastSpec == InitForecastSpec /\ [][NextForecast]_vars

\* Startup and the health task on the event loop.  The loop runs every task
\* that is ready, and a request ends by its answer, an error or the client's
\* 6 second timeout: each enabled step is eventually taken.
NextHealth ==
    \/ startup_event
    \/ HealthSkip
    \/ HealthRequest
    \/ \E outcome \in Outcomes : HealthReply(outcome)

InitHealthSpec ==
    InitWebFresh /\ InitAuth /\ InitLoaded /\ InitEnv /\ InitFc /\ InitHealthAny /\ InitRoi
    /\ InitCk

HealthSpec == InitHealthSpec /\ [][NextHealth]_vars /\ WF_vars(NextHealth)

\* GET /roi while run_forecast runs in another process.
NextRoi ==
    \/ ForecastCompute
    \/ ForecastSave
    \/ RoiMissing
    \/ RoiRead
    \/ RoiParseStep

\* data/ holds no ledger yet, or one of Cap - 1 payments.
InitRoiSpec ==
    /\ secret = TRUE
    /\ file \in {FreshFiles, FullFiles}
    /\ WebIdle
    /\ InitAuth /\ InitLoaded /\ InitEnv /\ InitFc /\ InitMore

RoiSpec == InitRoiSpec /\ [][NextRoi]_vars

\* Requests to the two checkout endpoints, with and without the keys.
NextCheckout ==
    \/ \E key \in BOOLEAN, body \in CheckoutBodies, outcome \in StripeOutcomes :
          create_stripe_checkout(key, body, outcome)
    \/ \E key \in BOOLEAN, body \in CheckoutBodies, outcome \in CoinbaseOutcomes :
          create_coinbase_checkout(key, body, outcome)

InitCheckoutSpec == InitWebFresh /\ InitAuth /\ InitLoaded /\ InitEnv /\ InitFc /\ InitMore

CheckoutSpec == InitCheckoutSpec /\ [][NextCheckout]_vars

\* Payment confirmations; the forecast reads only their amounts, so one
\* processor's are taken.
Payments == {ev \in Events : IsPayment(ev) /\ ev.sig /\ ev.source = "coinbase"}

\* run_forecast is started while no forecast before the last one is on
\* record: a behaviour has two runs, a forecast and the one before it (the
\* state keeps no more of the past than that).
ForecastStart == prevTotal = -1 /\ ForecastCompute

\* Confirmed payments ingested by one server process while run_forecast is
\* run, at any moment, by another.
NextLedger ==
    \/ \E ev \in Payments : Deliver(1, ev)
    \/ Load(1)
    \/ Open(1)
    \/ Dump(1)
    \/ Finish(1)
    \/ ForecastStart
    \/ ForecastSave

InitLedgerSpec ==
    /\ secret = TRUE
    /\ file \in {FreshFiles, FullFiles}
    /\ WebIdle
    /\ InitAuth /\ InitLoaded /\ InitEnv /\ InitFc /\ InitMore

LedgerSpec == InitLedgerSpec /\ [][NextLedger]_vars

\* ================================================================ claims

Ledger == file[FINANCE_LOG].data

\* C1: webhook ingestion is idempotent: whatever deliveries and redeliveries
\* arrive, the finance ledger holds at most one entry per (source,
\* transaction id).
C1_AtMostOncePerTransaction ==
    \A i \in 1..Len(Ledger) : \A j \in (i + 1)..Len(Ledger) :
        ~(Ledger[i].source = Ledger[j].source /\ Ledger[i].id = Ledger[j].id)

\* A request whose signature was checked against a configured secret.
Verified(ev) == ev.sig /\ (ev.source = "stripe" => secret)

\* C2: neither webhook handler changes webhook_log.json or finance_log.json
\* for a request whose signature has not been verified.
C2_NoMutationBeforeVerification ==
    [][\A w \in Workers :
          (pc'[w] # pc[w] /\ file' # file) => Verified(req[w])]_vars

\* C3: two confirmed payments with distinct transaction ids that are handled
\* concurrently and both answered 200, with no I/O error and the ledger
\* below its cap, are both in finance_log.json.
C3_NoLostUpdate ==
    ( /\ \A w \in Workers : pc[w] = "done" /\ resp[w] = 200 /\ IsPayment(req[w])
      /\ req[1].id # req[2].id
      /\ faults = 0
      /\ Len(appended[FINANCE_LOG]) <= Cap )
    => \A w \in Workers : \E i \in 1..Len(Ledger) : Ledger[i] = FinanceEntry(req[w])

\* kept is all cut to its last Cap elements, order kept.
IsNewestOf(kept, all) ==
    /\ Len(kept) = (IF Len(all) < Cap THEN Len(all) ELSE Cap)
    /\ \A i \in 1..Len(kept) : kept[i] = all[Len(all) - Len(kept) + i]

C4_AtMostCap == \A f \in Files : Len(file[f].data) <= Cap

C4_History ==
    \A f \in Files :
        (faults = 0 /\ file[f].state = "ok") => IsNewestOf(file[f].data, appended[f])

C4_Write ==
    \A f \in Files :
        (file'[f] # file[f] /\ file'[f].state = "ok")
        => \E w \in Workers :
              /\ pc[w] \in DumpStages
              /\ StageFile(pc[w]) = f
              /\ IsNewestOf(file'[f].data, buf[w])

\* C4: after any sequence of deliveries each log holds at most 100 entries;
\* every write leaves the newest 100 of the list it was given, in order;
\* and as long as no I/O error has occurred a log holds exactly the 100 most
\* recently appended entries, in append order.
C4_CappedToNewest == [](C4_AtMostCap /\ C4_History) /\ [][C4_Write]_vars

\* Both logs have had more than 100 entries appended and hold the newest 100.
C4_Witness ==
    /\ faults = 0
    /\ \A f \in Files :
          /\ Len(appended[f]) > Cap
          /\ file[f].state = "ok"
          /\ Len(file[f].data) = Cap
          /\ file[f].data[Cap] = appended[f][Len(appended[f])]
          /\ file[f].data[1] = appended[f][Len(appended[f]) - Cap + 1]

\* C5: login succeeds exactly when the email was registered and the hash of
\* the password equals the hash stored at registration; it answers 404 for
\* an email with no entry and 401 when the hashes differ; it leaves the
\* mapping as it was.
C5_LoginByHashEquality ==
    authResp.op = "login" =>
        LET first == registered[authResp.email]
            given == hash_password(authResp.password)
        IN  /\ (authResp.status = 200) <=> (first # None /\ given = hash_password(first))
            /\ (authResp.status = 404) <=> (first = None)
            /\ (authResp.status = 401) <=> (first # None /\ given # hash_password(first))
            /\ fake_users = authResp.before

\* A login was accepted, for a registered email.
C5_Witness ==
    /\ authResp.op = "login"
    /\ authResp.status = 200
    /\ registered[authResp.email] = authResp.password

C6_Signup ==
    authResp.op = "signup" =>
        LET e == authResp.email
            before == authResp.before
        IN  /\ authResp.status = (IF e \in DOMAIN before THEN 400 ELSE 200)
            /\ authResp.status = 400 => fake_users = before
            /\ authResp.status = 200 =>
                  /\ DOMAIN fake_users = DOMAIN before \cup {e}
                  /\ \A x \in DOMAIN before : fake_users[x] = before[x]
                  /\ fake_users[e] = hash_password(authResp.password)

C6_FirstPasswordStays ==
    /\ \A e \in DOMAIN fake_users : registered[e] # None
    /\ \A e \in Emails :
          registered[e] # None =>
              (e \in DOMAIN fake_users /\ fake_users[e] = hash_password(registered[e]))

C6_Count ==
    authResp.op = "status" =>
        authResp.count = Cardinality({e \in Emails : registered[e] # None})

\* C6: signup for an email already in the mapping answers 400 and leaves the
\* mapping unchanged, so the first registered password stays the valid one;
\* signup for a new email adds exactly that entry; users_registered is the
\* number of emails signed up, and the mapping never shrinks.
C6_SignupOnce ==
    /\ [](C6_Signup /\ C6_FirstPasswordStays /\ C6_Count)
    /\ [][Cardinality(DOMAIN fake_users') >= Cardinality(DOMAIN fake_users)]_vars

\* A second signup for a registered email, with another password, got 400.
C6_Witness ==
    /\ authResp.op = "signup"
    /\ authResp.status = 400
    /\ registered[authResp.email] # authResp.password
    /\ Cardinality(DOMAIN fake_users) = 2

\* test_routes.py: the endpoints the test script calls.
TestEndpoints ==
    {Route("POST", <<"auth", "signup">>), Route("POST", <<"avatar", "create">>),
     Route("GET", <<"integrations", "status">>), Route("GET", <<"healthz">>)}

\* C7: once main.py has run with every import succeeding, the application
\* serves each endpoint of the test script at the path the script calls,
\* and no route sits under a doubled prefix.
C7_TestEndpointsServed ==
    (booted /\ importFailed = {}) =>
        /\ \A t \in TestEndpoints : Served(t.method, t.path)
        /\ \A r \in mounted : ~(Len(r.path) >= 2 /\ r.path[1] = r.path[2])

\* word occurs in k at position i, each letter in either case.
OccursAnyCase(k, word, i) ==
    /\ i + Len(word) - 1 <= Len(k)
    /\ \A j \in 1..Len(word) : k[i + j - 1] \in {word[j], UpperOf[word[j]]}

\* The environments with the names of env, in the same order, and any values.
Revalued(env) ==
    {[i \in 1..Len(env) |-> [name |-> env[i].name, value |-> values[i]]] :
        values \in [1..Len(env) -> EnvValues]}

\* C8: the answer of /debug/env holds no value of an environment variable
\* and no name containing key, secret or token in any letter case (every
\* key it lists is a name of the environment), and it is the same for two
\* environments that differ only in values.
C8_DebugEnvIsSafe ==
    debugResp # NoDebugResp =>
        /\ \A i \in 1..Len(debugResp.env_keys) :
              LET k == debugResp.env_keys[i]
              IN  /\ \A v \in 1..Len(environ) : k # environ[v].value
                  /\ \E v \in 1..Len(environ) : k = environ[v].name
                  /\ \A word \in Sensitive : \A p \in 1..Len(k) : ~OccursAnyCase(k, word, p)
        /\ \A r \in debugResp.routes_loaded :
              \A v \in 1..Len(environ) : r # environ[v].value
        /\ \A e \in Revalued(environ) : DebugEnv(e) = debugResp

\* /debug/env answered in an environment with a mixed-case sensitive name
\* and a harmless one: the first is withheld, the second listed.
C8_Witness ==
    /\ debugResp # NoDebugResp
    /\ \E v \in 1..Len(environ) :
          environ[v].name = <<"A", "p", "i", "_", "T", "o", "k", "e", "n">>
    /\ Len(debugResp.env_keys) = 1
    /\ debugResp.env_keys[1] = <<"T", "O", "K", "_", "E", "N">>
    /\ Len(environ) = 3

RECURSIVE TotalUpTo(_, _)
\* The sum of the first n amounts of a ledger.
TotalUpTo(ledger, n) ==
    IF n = 0 THEN 0 ELSE TotalUpTo(ledger, n - 1) + ledger[n].amount

\* C9: run_forecast returns, and writes to reinvest.json, total_revenue =
\* the sum of the amounts read from finance_log.json (0 for a missing or
\* unreadable file), roi = total_revenue / 100 rounded to two decimals, and
\* next_budget 150 for roi > 1.5, 120 for 1.0 < roi <= 1.5, 80 for
\* roi <= 1.0, on the rounded roi.
C9_ForecastFromLedger ==
    fcResp # NoForecast =>
        LET total == IF file[FINANCE_LOG].state = "ok"
                     THEN TotalUpTo(Ledger, Len(Ledger)) ELSE 0
        IN  /\ fcResp.total_revenue = total
            /\ 100 * fcResp.roi - 50 <= total
            /\ total <= 100 * fcResp.roi + 50
            /\ fcResp.roi > 150 => fcResp.next_budget = 150
            /\ (fcResp.roi > 100 /\ fcResp.roi <= 150) => fcResp.next_budget = 120
            /\ fcResp.roi <= 100 => fcResp.next_budget = 80
            /\ reinvest = [state |-> "ok", data |-> fcResp]

\* A forecast on a ledger of 150.00: roi is exactly 1.5 and the budget 120.
C9_Witness ==
    /\ fcResp # NoForecast
    /\ fcResp.total_revenue = 15000
    /\ fcResp.roi = 150
    /\ fcResp.next_budget = 120
    /\ reinvest.state = "ok"

\* C10: when a write of a log fails during a delivery the handler still
\* answers 200, as for a successful write, and the file keeps the contents
\* it had before the write.
C10_FailedWriteIsSilent ==
    \A w \in Workers :
        (pc[w] = "done" /\ snap[w].failed)
        => (resp[w] = 200 /\ file[snap[w].f] = snap[w].before)

\* The event types that are payment confirmations.
C11_Confirmation(ev) ==
    \/ ev.source = "stripe" /\ ev.type = "checkout.session.completed"
    \/ ev.source = "coinbase" /\ ev.type = "charge:confirmed"

\* The list a file held before the write the worker has under way.
C11_Before(w) == IF snap[w].before.state = "ok" THEN snap[w].before.data ELSE <<>>

\* The write of append_log adds the event's entry to webhook_log.json,
\* leaves finance_log.json alone, and goes on to append_finance exactly for
\* a payment confirmation.
C11_LogStep ==
    \A w \in Workers :
        (pc[w] = "log_dump" /\ pc'[w] # "log_dump" /\ faults' = 0)
        => /\ appended'[WEBHOOK_LOG] = Append(appended[WEBHOOK_LOG], LogEntry(req[w]))
           /\ file'[WEBHOOK_LOG] =
                 [state |-> "ok",
                  data |-> LastCap(Append(C11_Before(w), LogEntry(req[w])))]
           /\ file'[FINANCE_LOG] = file[FINANCE_LOG]
           /\ pc'[w] = (IF C11_Confirmation(req[w]) THEN "fin_load" ELSE "done")

\* finance_log.json changes only in the write of append_finance, for a
\* payment confirmation, and that write adds the payment's entry.
C11_FinanceStep ==
    file'[FINANCE_LOG] # file[FINANCE_LOG]
    => \E w \in Workers :
          /\ pc[w] \in {"fin_open", "fin_dump"}
          /\ C11_Confirmation(req[w])
          /\ (pc[w] = "fin_dump" /\ faults' = 0)
             => /\ appended'[FINANCE_LOG] =
                      Append(appended[FINANCE_LOG], FinanceEntry(req[w]))
                /\ file'[FINANCE_LOG] =
                      [state |-> "ok",
                       data |-> LastCap(Append(C11_Before(w), FinanceEntry(req[w])))]

\* The finance append of a delivery comes after its log append: with no
\* I/O error the ledger has never had more appends than the log, and an
\* answered delivery has its entry last in the log and, for a payment
\* confirmation, last in the ledger.
C11_Order ==
    faults = 0 =>
        /\ Len(appended[FINANCE_LOG]) <= Len(appended[WEBHOOK_LOG])
        /\ \A w \in Workers :
              (pc[w] \in {"fin_load", "fin_open", "fin_dump"}
               \/ (pc[w] = "done" /\ resp[w] = 200))
              => /\ file[WEBHOOK_LOG].state = "ok"
                 /\ file[WEBHOOK_LOG].data[Len(file[WEBHOOK_LOG].data)] = LogEntry(req[w])
        /\ \A w \in Workers :
              (pc[w] = "done" /\ resp[w] = 200 /\ C11_Confirmation(req[w]))
              => /\ file[FINANCE_LOG].state = "ok"
                 /\ Ledger[Len(Ledger)] = FinanceEntry(req[w])

\* C11: every accepted event adds its entry to webhook_log.json; only a
\* Stripe checkout.session.completed or a Coinbase charge:confirmed adds an
\* entry to finance_log.json, and any other event type leaves that file as
\* it was; within a delivery the log append comes before the finance
\* append.
C11_LogAlwaysFinanceOnlyForPayments ==
    /\ []C11_Order
    /\ [][C11_LogStep /\ C11_FinanceStep]_vars

\* A payment confirmation and then an event of another type have been
\* answered: the log has both entries, the ledger only the payment's.
C11_Witness ==
    /\ pc[1] = "done"
    /\ resp[1] = 200
    /\ req[1].type = "charge:created"
    /\ faults = 0
    /\ file[WEBHOOK_LOG].state = "ok"
    /\ Len(file[WEBHOOK_LOG].data) = 2
    /\ file[FINANCE_LOG].state = "ok"
    /\ Len(Ledger) = 1

\* The place of a service in the order Stripe, Coinbase, OpenAI.
C12_Place(s) == CHOOSE i \in 1..Len(ServiceOrder) : ServiceOrder[i] = s

\* No failure leaves the task; requests go only to services with a key, at
\* most one each, in the order Stripe, Coinbase, OpenAI; and when the task
\* has ended every service with a key was sent its request, whatever became
\* of the requests before it.
C12_Checks ==
    /\ hPc # Crashed
    /\ Len(hRequests) <= Len(ServiceOrder)
    /\ \A i \in 1..Len(hRequests) :
          /\ ~Falsy(apiKeys[hRequests[i]])
          /\ \A j \in (i + 1)..Len(hRequests) :
                C12_Place(hRequests[i]) < C12_Place(hRequests[j])
    /\ hPc = Finished =>
          \A s \in Services :
              IF Falsy(apiKeys[s])
              THEN hLog[s] = "missing" /\ \A i \in 1..Len(hRequests) : hRequests[i] # s
              ELSE hLog[s] \in {"reachable", "failed"}
                   /\ \E i \in 1..Len(hRequests) : hRequests[i] = s

\* startup_event returns with the task created and no request sent yet.
C12_StartupDoesNotWait ==
    (ready' /\ ~ready) => (hPc' = 1 /\ ~hInFlight' /\ hRequests' = <<>>)

\* C12: startup_event completes and the application is ready without
\* waiting for verify_service_health; the task sends no request for a
\* service whose key is missing, goes on to the next service after a failed
\* or timed-out request, lets no failure out, and ends after at most one
\* request per service, in the order Stripe, Coinbase, OpenAI.
C12_HealthPingsFireAndForget ==
    /\ []C12_Checks
    /\ [][C12_StartupDoesNotWait]_vars
    /\ <>ready
    /\ <>[](hPc = Finished /\ ~hInFlight)

\* The task has ended after a failed Stripe request, a skipped Coinbase
\* (no key) and an answered OpenAI request.
C12_Witness ==
    /\ ready
    /\ hPc = Finished
    /\ Falsy(apiKeys["Coinbase"])
    /\ hLog = [s \in Services |->
                 IF s = "Stripe" THEN "failed"
                 ELSE IF s = "Coinbase" THEN "missing" ELSE "reachable"]
    /\ hRequests = <<"Stripe", "OpenAI">>

\* body holds every value of the forecast f.
C13_Complete(body, f) ==
    /\ body.total_revenue = f.total_revenue
    /\ body.ads_spent = f.ads_spent
    /\ body.roi = f.roi
    /\ body.next_budget = f.next_budget
    /\ body.confidence = f.confidence
    /\ body.timestamp # "N/A"

C13_Defaults(body) ==
    /\ body.total_revenue = 0
    /\ body.ads_spent = 0
    /\ body.roi = 0
    /\ body.next_budget = 0
    /\ body.confidence = 0
    /\ body.timestamp = "N/A"

\* A text of reinvest.json that parses is the forecast the last completed
\* run_forecast returned, whenever GET /roi reads it.
C13_ReadStep ==
    (roiPc = "idle" /\ roiPc' = "reading" /\ roiGot'.state = "ok")
    => (fcResp # NoForecast /\ roiGot'.data = fcResp)

\* Every answer is a 200 whose body is the defaults or the complete values
\* of the text read; a missing file and a text cut short give the defaults.
C13_AnswerStep ==
    roiResp' # roiResp =>
        /\ roiResp'.status = 200
        /\ IF roiPc = "reading" /\ roiGot.state = "ok"
           THEN \/ C13_Complete(roiResp'.body, roiGot.data)
                \/ C13_Defaults(roiResp'.body) /\ reinvest # roiGot
           ELSE C13_Defaults(roiResp'.body)

\* C13: GET /roi never answers with an error; at any time, also while
\* run_forecast is truncating and rewriting reinvest.json, its body is
\* either the complete values written by a completed run_forecast or the
\* defaults (0, and 'N/A' for the timestamp), the latter when the file is
\* missing or does not parse; it never mixes two forecasts.
C13_RoiNeverFails ==
    /\ [](roiResp.status \in {0, 200})
    /\ [][C13_ReadStep /\ C13_AnswerStep]_vars

\* GET /roi has answered with a completed forecast and is now reading the
\* text a second run_forecast has just truncated.
C13_Witness ==
    /\ roiPc = "reading"
    /\ roiGot.state = "partial"
    /\ fcPc = "saving"
    /\ prevTotal = (Cap - 1) * 10000
    /\ roiResp.status = 200
    /\ roiResp.body.total_revenue = prevTotal
    /\ roiResp.body.confidence \in Confidences

\* C14: create_stripe_checkout answers 400, without calling Stripe, for a
\* body with no email and for a plan that is neither monthly nor yearly;
\* create_coinbase_checkout answers 400 for a body with no email, without
\* calling Coinbase, and for a Coinbase reply with a status other than 201;
\* 500 is answered only for processor or internal errors, 502 only for
\* Coinbase network errors.
C14_ValidationAnswers400 ==
    (ckResp.endpoint # "none" /\ ckResp.key /\ ckResp.body.json) =>
        LET noEmail == ckResp.body.email \in {None, ""}
            badPlan == ckResp.body.plan \notin {Absent, "monthly", "yearly"}
        IN  /\ (ckResp.endpoint = "stripe" /\ (noEmail \/ badPlan))
               => (ckResp.status = 400 /\ ~ckResp.called)
            /\ (ckResp.endpoint = "coinbase" /\ noEmail)
               => (ckResp.status = 400 /\ ~ckResp.called)
            /\ (ckResp.endpoint = "coinbase" /\ ~noEmail /\ ckResp.outcome = "422")
               => ckResp.status = 400
            /\ ckResp.status = 500
               => ckResp.outcome \in {"StripeError", "error", "201 not json"}
            /\ ckResp.status = 502
               => (ckResp.endpoint = "coinbase" /\ ckResp.outcome = "RequestException")

\* safe_load_json within an append: the list of a file that is read and
\* parses, with the new entry behind it; the new entry alone when the file
\* is missing, does not parse, or its read raises.
C15_LoadStep ==
    \A w \in Workers :
        (pc[w] \in LoadStages /\ pc'[w] # pc[w]) =>
            LET f == StageFile(pc[w])
                e == StageEntry(pc[w], req[w])
                readable == file[f].state = "ok" /\ faults' = faults
            IN  /\ pc'[w] \in OpenStages
                /\ buf'[w] = IF readable THEN Append(file[f].data, e) ELSE <<e>>

\* A write that succeeds leaves the staged list, cut to its newest Cap
\* entries: nothing else is removed.
C15_WriteStep ==
    \A w \in Workers :
        (pc[w] \in DumpStages /\ pc'[w] # pc[w] /\ file'[StageFile(pc[w])].state = "ok")
        => IsNewestOf(file'[StageFile(pc[w])].data, buf[w])

\* Between the load and the write the staged list is the new entry behind
\* the list the file held, or the new entry alone; it is the new entry
\* alone whenever the file did not parse.
C15_Staged ==
    \A w \in Workers :
        (pc[w] \in OpenStages \cup DumpStages) =>
            LET f == StageFile(pc[w])
                e == StageEntry(pc[w], req[w])
                held == IF pc[w] \in OpenStages THEN file[f] ELSE snap[w].before
            IN  (pc[w] \in OpenStages \/ (snap[w].f = f /\ ~snap[w].failed))
                => /\ buf[w] \in {<<e>>, Append(held.data, e)}
                   /\ held.state # "ok" => buf[w] = <<e>>

\* C15: a read failure does not stop an append and discards the log: when
\* the file exists but cannot be read or parsed, safe_load_json yields [],
\* and after the write the file holds the new entry alone; when the file is
\* readable an append removes no entry other than through the cap.
C15_ReadFailureDiscardsLog ==
    /\ []C15_Staged
    /\ [][C15_LoadStep /\ C15_WriteStep]_vars

\* A payment was answered after the read of a ledger of Cap - 1 entries
\* failed: the ledger holds that payment alone.
C15_Witness ==
    /\ pc[1] = "done"
    /\ resp[1] = 200
    /\ faults = 1
    /\ ~snap[1].failed
    /\ snap[1].f = FINANCE_LOG
    /\ snap[1].before.state = "ok"
    /\ Len(snap[1].before.data) = Cap - 1
    /\ file[FINANCE_LOG].state = "ok"
    /\ Ledger = <<FinanceEntry(req[1])>>

\* run_forecast's read: total_revenue is the sum of the amounts of the
\* entries finance_log.json holds at that moment (none when it is missing
\* or being rewritten), which are at most Cap.
C16_ReadStep ==
    (fcPc = "idle" /\ fcPc' = "saving") =>
        LET present == IF file[FINANCE_LOG].state = "ok" THEN Ledger ELSE <<>>
        IN  /\ fcBuf'.total_revenue = TotalUpTo(present, Len(present))
            /\ Len(present) <= Cap

\* run_forecast returns the forecast it computed from that read.
C16_ReturnStep ==
    (fcPc = "saving" /\ fcPc' = "idle") => fcResp' = fcBuf

\* The entries present are the newest Cap of the payments ingested, and
\* every amount is positive.
C16_Present ==
    /\ file[FINANCE_LOG].state = "ok" => IsNewestOf(Ledger, appended[FINANCE_LOG])
    /\ \A i \in 1..Len(appended[FINANCE_LOG]) : appended[FINANCE_LOG][i].amount > 0

\* C16: total_revenue of a forecast is the sum of the amounts of the entries
\* present in finance_log.json when run_forecast reads it, hence of at most
\* the 100 most recent payments; once more than 100 payments have been
\* ingested a further payment can make the next forecast's total_revenue
\* smaller than the previous one, with all amounts positive.
C16_ForecastCoversCappedLedger ==
    /\ []C16_Present
    /\ [][C16_ReadStep /\ C16_ReturnStep]_vars

\* 101 payments have been ingested; the forecast made after the 101st is
\* the sum of the 100 entries present and is smaller than the forecast made
\* after the 100th, which was the sum of the first 100.
C16_Witness ==
    /\ Len(appended[FINANCE_LOG]) = Cap + 1
    /\ file[FINANCE_LOG].state = "ok"
    /\ Len(Ledger) = Cap
    /\ fcPc = "idle"
    /\ fcResp # NoForecast
    /\ fcResp.total_revenue = TotalUpTo(Ledger, Cap)
    /\ prevTotal = TotalUpTo(appended[FINANCE_LOG], Cap)
    /\ fcResp.total_revenue < prevTotal
====
